---- MODULE Spec2Model ----
(***************************************************************************)
(* Trading Notebook (src/app.py): the JSON-file entry store                *)
(* (load_entries, save_entries, add_entry, delete_entry), the grouping     *)
(* helper group_entries_by_date and the display formatter                  *)
(* format_journal_text.                                                    *)
(*                                                                         *)
(* Spec        the store: one script run (the writer) executing add_entry  *)
(*             or delete_entry step by step, the wall clock, and a second  *)
(*             session (the reader) calling load_entries at any moment.    *)
(* SpecLoad    load_entries applied to every state the backing file can    *)
(*             be left in.                                                 *)
(* SpecGroup   group_entries_by_date applied to bounded entry lists.       *)
(* SpecFormat  format_journal_text applied to bounded texts.               *)
(***************************************************************************)
EXTENDS Integers, Sequences, FiniteSets, TLC

VARIABLES
    file,       \* DATA_FILE on disk: [exists, data], data a sequence of JSON tokens
    pc,         \* position of the writer's script run
    op,         \* the call the writer is in: "init", "add", "delete", "none"
    entries,    \* the writer's local list `entries`
    entry,      \* the dict handed to add_entry, after entry['id'] was set
    arg,        \* entry_id handed to delete_entry
    before,     \* history: what load_entries returned when the call started
    status,     \* history: outcome of the last call: "none", "running", "ok", "failed"
    clock,      \* the reading datetime.now().timestamp() returns
    nextOrd,    \* history: ordinal of the next add_entry call
    clean,      \* history: TRUE while every call so far was an add_entry that returned
    rpc,        \* position of the reader
    observed,   \* what the reader's load_entries call returned
    ginput,     \* argument of group_entries_by_date
    goutput,    \* its result
    text,       \* argument of format_journal_text
    formatted,  \* its result
    spc         \* SpecGroup, SpecFormat: "none", "ready" (argument drawn), "done"

vars == <<file, pc, op, entries, entry, arg, before, status, clock, nextOrd,
          clean, rpc, observed, ginput, goutput, text, formatted, spc>>

storeVars == <<file, pc, op, entries, entry, arg, before, status, clock, nextOrd,
               clean, rpc, observed>>
groupVars == <<ginput, goutput>>
formatVars == <<text, formatted>>
sideVars == <<ginput, goutput, text, formatted, spc>>

----------------------------------------------------------------------------
(* Bounds *)

MaxClock == 2       \* clock readings 0..MaxClock
MaxOrd == 3         \* at most MaxOrd add_entry calls in a run
MaxStored == 2      \* SpecLoad: collections of at most MaxStored entries
MaxGroupLen == 3    \* SpecGroup: input lists of at most MaxGroupLen entries
MaxTextLen == 5     \* SpecFormat: texts of at most MaxTextLen characters

Dates == {"01-11-2025", "02-11-2025"}

None == "None"
NoEntry == [id |-> -1, date |-> None, ord |-> 0]
NoRead == [raised |-> FALSE, val |-> <<>>]
NoGroup == [grouped |-> <<>>, date_order |-> <<>>]

\* dict.get(key): the value, or None when the key is absent
Get(e, k) == IF k \in DOMAIN e THEN e[k] ELSE None

----------------------------------------------------------------------------
(* The JSON file: json.dump writes a token stream, json.load parses one.   *)
(* Tokens: "[", "]", ",", and one token per entry object.  The whitespace  *)
(* that indent=2 adds is skipped by the parser and left out.  A stream cut *)
(* inside an object is as unparseable as one cut in front of it, so cuts   *)
(* are taken at token boundaries.                                          *)

TokOpen == [t |-> "["]
TokClose == [t |-> "]"]
TokComma == [t |-> ","]
TokObj(e) == [t |-> "obj", v |-> e]

Missing == [exists |-> FALSE, data |-> <<>>]

RECURSIVE DumpElems(_)
DumpElems(es) ==
    IF es = <<>> THEN <<>>
    ELSE IF Len(es) = 1 THEN <<TokObj(es[1])>>
    ELSE <<TokObj(es[1]), TokComma>> \o DumpElems(Tail(es))

\* json.dump(entries, f, indent=2): the complete token stream
json_dump(es) == <<TokOpen>> \o DumpElems(es) \o <<TokClose>>

Raise == [raised |-> TRUE, val |-> <<>>]
Return(v) == [raised |-> FALSE, val |-> v]

\* the array parser after "[" or ",": an object, then "," or "]"
RECURSIVE ParseElems(_, _, _)
ParseElems(toks, i, acc) ==
    IF i > Len(toks) \/ toks[i].t # "obj" THEN Raise
    ELSE IF i + 1 > Len(toks) THEN Raise
    ELSE IF toks[i + 1].t = "]" THEN
        IF i + 1 = Len(toks) THEN Return(Append(acc, toks[i].v)) ELSE Raise
    ELSE IF toks[i + 1].t = "," THEN ParseElems(toks, i + 2, Append(acc, toks[i].v))
    ELSE Raise

\* json.load(f) on a file holding an array of objects (the only document
\* save_entries writes): JSONDecodeError on an empty, cut or malformed stream
json_load(toks) ==
    IF Len(toks) < 2 \/ toks[1].t # "[" THEN Raise
    ELSE IF toks[2].t = "]" THEN (IF Len(toks) = 2 THEN Return(<<>>) ELSE Raise)
    ELSE ParseElems(toks, 2, <<>>)

\* the try-body of load_entries: open(DATA_FILE, 'r') raises on a missing file
load_entries_try(f) == IF ~f.exists THEN Raise ELSE json_load(f.data)

load_entries_noexcept(f) == load_entries_try(f)

\* load_entries: the bare except turns every exception into []
load_entries(f) ==
    LET r == load_entries_try(f) IN IF r.raised THEN Return(<<>>) ELSE r

----------------------------------------------------------------------------
(* add_entry / delete_entry list manipulation *)

insert_back(es, e) == Append(es, e)

insert_dropped(es, e) == es

\* entries.insert(0, entry)
insert_front(es, e) == <<e>> \o es

RECURSIVE remove_first(_, _)
remove_first(es, id) ==
    IF es = <<>> THEN <<>>
    ELSE IF Get(es[1], "id") = id THEN Tail(es)
    ELSE <<es[1]>> \o remove_first(Tail(es), id)

RECURSIVE remove_overwrite(_, _)
remove_overwrite(es, id) ==
    IF es = <<>> THEN <<>>
    ELSE IF Get(es[1], "id") = id
         THEN remove_overwrite(Tail(es), id)
         ELSE <<[es[1] EXCEPT !.date = None]>> \o remove_overwrite(Tail(es), id)

\* [e for e in entries if e.get('id') != entry_id]
RECURSIVE remove_id(_, _)
remove_id(es, id) ==
    IF es = <<>> THEN <<>>
    ELSE IF Get(es[1], "id") # id
         THEN <<es[1]>> \o remove_id(Tail(es), id)
         ELSE remove_id(Tail(es), id)

\* entry['id'] = datetime.now().timestamp().  Of the form's fields the date
\* is kept; ord is a history label numbering the add_entry calls, which
\* the program neither sets nor reads.
stamp_id(e, now) == [id |-> now, date |-> e.date, ord |-> e.ord]

----------------------------------------------------------------------------
(* The store *)

\* The reader's run touches nothing the writer reads and is short against the
\* writer's file operations: it is placed, load and rendering together,
\* between two steps of the writer, at any point of the writer's run.
ReaderAway == rpc = "idle"

StoreInit ==
    /\ file \in {Missing, [exists |-> TRUE, data |-> json_dump(<<>>)]}
    /\ pc = "start"
    /\ op = "none"
    /\ entries = <<>>
    /\ entry = NoEntry
    /\ arg = -1
    /\ before = <<>>
    /\ status = "none"
    /\ clock = 0
    /\ nextOrd = 1
    /\ clean = TRUE
    /\ rpc = "idle"
    /\ observed = NoRead

SideIdle ==
    /\ ginput = <<>>
    /\ goutput = NoGroup
    /\ text = <<>>
    /\ formatted = <<>>
    /\ spc = "none"

Init == StoreInit /\ SideIdle

\* module level: if not DATA_FILE.exists(): open(DATA_FILE, 'w'); json.dump([], f)
StartupCreate ==
    /\ pc = "start"
    /\ ReaderAway
    /\ ~file.exists
    /\ op' = "init"
    /\ entries' = <<>>
    /\ before' = <<>>
    /\ status' = "running"
    /\ pc' = "save_open"
    /\ UNCHANGED <<file, entry, arg, clock, nextOrd, clean, rpc, observed>>
    /\ UNCHANGED sideVars

StartupSkip ==
    /\ pc = "start"
    /\ ReaderAway
    /\ file.exists
    /\ pc' = "idle"
    /\ UNCHANGED <<file, op, entries, entry, arg, before, status, clock, nextOrd,
                   clean, rpc, observed>>
    /\ UNCHANGED sideVars

\* add_entry up to the call of save_entries; `now` is what datetime.now()
\* returns, a reading not earlier than the previous one
AddBegin(d, now) ==
    /\ pc = "idle"
    /\ ReaderAway
    /\ nextOrd <= MaxOrd
    /\ now >= clock
    /\ clock' = now
    /\ LET cur == load_entries(file).val
           e == stamp_id([date |-> d, ord |-> nextOrd], now)
       IN /\ entries' = insert_front(cur, e)
          /\ entry' = e
          /\ before' = cur
    /\ op' = "add"
    /\ status' = "running"
    /\ nextOrd' = nextOrd + 1
    /\ pc' = "save_open"
    /\ UNCHANGED <<file, arg, clean, rpc, observed>>
    /\ UNCHANGED sideVars

\* delete_entry up to the call of save_entries
DeleteBegin(id) ==
    /\ pc = "idle"
    /\ ReaderAway
    /\ LET cur == load_entries(file).val
       IN /\ entries' = remove_id(cur, id)
          /\ before' = cur
    /\ arg' = id
    /\ op' = "delete"
    /\ status' = "running"
    /\ clean' = FALSE
    /\ pc' = "save_open"
    /\ UNCHANGED <<file, entry, clock, nextOrd, rpc, observed>>
    /\ UNCHANGED sideVars

\* open(DATA_FILE, 'w'): the file is created or truncated to nothing
SaveOpen ==
    /\ pc = "save_open"
    /\ ReaderAway
    /\ file' = [exists |-> TRUE, data |-> <<>>]
    /\ pc' = "save_write"
    /\ UNCHANGED <<op, entries, entry, arg, before, status, clock, nextOrd,
                   clean, rpc, observed>>
    /\ UNCHANGED sideVars

\* open raises (OSError): nothing was touched, the exception leaves the call
SaveOpenFail ==
    /\ pc = "save_open"
    /\ ReaderAway
    /\ pc' = "done"
    /\ status' = "failed"
    /\ clean' = FALSE
    /\ UNCHANGED <<file, op, entries, entry, arg, before, clock, nextOrd,
                   rpc, observed>>
    /\ UNCHANGED sideVars

\* json.dump writes the next chunk
SaveWrite ==
    /\ pc = "save_write"
    /\ ReaderAway
    /\ Len(file.data) < Len(json_dump(entries))
    /\ file' = [file EXCEPT !.data = Append(@, json_dump(entries)[Len(@) + 1])]
    /\ UNCHANGED <<pc, op, entries, entry, arg, before, status, clock, nextOrd,
                   clean, rpc, observed>>
    /\ UNCHANGED sideVars

\* a write or the final flush raises (OSError, or TypeError from the encoder):
\* the with block closes the file as it is and the exception leaves the call
SaveWriteFail ==
    /\ pc = "save_write"
    /\ ReaderAway
    /\ Len(file.data) < Len(json_dump(entries))
    /\ pc' = "done"
    /\ status' = "failed"
    /\ clean' = FALSE
    /\ UNCHANGED <<file, op, entries, entry, arg, before, clock, nextOrd,
                   rpc, observed>>
    /\ UNCHANGED sideVars

\* the with block ends and save_entries returns: to the caller of add_entry or
\* delete_entry, or into the rest of the module after the initialisation
SaveClose ==
    /\ pc = "save_write"
    /\ ReaderAway
    /\ Len(file.data) = Len(json_dump(entries))
    /\ pc' = IF op = "init" THEN "idle" ELSE "done"
    /\ status' = "ok"
    /\ UNCHANGED <<file, op, entries, entry, arg, before, clock, nextOrd,
                   clean, rpc, observed>>
    /\ UNCHANGED sideVars

\* the script run ends (st.rerun(), or the exception ends it): its locals are
\* gone, and the next run starts again at the top of the module
RunEnd ==
    /\ pc = "done"
    /\ ReaderAway
    /\ pc' = "start"
    /\ op' = "none"
    /\ entries' = <<>>
    /\ entry' = NoEntry
    /\ arg' = -1
    /\ before' = <<>>
    /\ status' = "none"
    /\ UNCHANGED <<file, clock, nextOrd, clean, rpc, observed>>
    /\ UNCHANGED sideVars

\* another session's run reaches all_entries = load_entries(); it has passed
\* the module-level initialisation, so the file exists
ReaderLoad ==
    /\ rpc = "idle"
    /\ file.exists
    /\ observed' = load_entries(file)
    /\ rpc' = "loaded"
    /\ UNCHANGED <<file, pc, op, entries, entry, arg, before, status, clock, nextOrd,
                   clean>>
    /\ UNCHANGED sideVars

\* that run renders and ends
ReaderDone ==
    /\ rpc = "loaded"
    /\ rpc' = "idle"
    /\ observed' = NoRead
    /\ UNCHANGED <<file, pc, op, entries, entry, arg, before, status, clock, nextOrd,
                   clean>>
    /\ UNCHANGED sideVars

Next ==
    \/ StartupCreate
    \/ StartupSkip
    \/ \E d \in Dates, now \in 0..MaxClock : AddBegin(d, now)
    \/ \E id \in 0..MaxClock : DeleteBegin(id)
    \/ SaveOpen
    \/ SaveOpenFail
    \/ SaveWrite
    \/ SaveWriteFail
    \/ SaveClose
    \/ RunEnd
    \/ ReaderLoad
    \/ ReaderDone

Spec == Init /\ [][Next]_vars

----------------------------------------------------------------------------
(* load_entries on every state the backing file can be left in *)

SeqsUpTo(S, n) == UNION {[1..k -> S] : k \in 0..n}

Prefixes(toks) == {SubSeq(toks, 1, k) : k \in 0..Len(toks)}

StoredEntries == [id : 0..1, date : Dates, ord : {1}]

\* `entries` is the collection last handed to save_entries; the file is missing
\* (before the module-level initialisation), or holds what an interrupted or
\* completed save of `entries` left: nothing, a cut stream, the whole stream
LoadInit ==
    /\ entries \in SeqsUpTo(StoredEntries, MaxStored)
    /\ file \in {Missing} \cup
                {[exists |-> TRUE, data |-> d] : d \in Prefixes(json_dump(entries))}
    /\ pc = "idle"
    /\ op = "none"
    /\ entry = NoEntry
    /\ arg = -1
    /\ before = <<>>
    /\ status = "none"
    /\ clock = 0
    /\ nextOrd = 1
    /\ clean = TRUE
    /\ rpc = "idle"
    /\ observed = NoRead
    /\ SideIdle

LoadCall ==
    /\ rpc = "idle"
    /\ observed' = load_entries(file)
    /\ rpc' = "loaded"
    /\ UNCHANGED <<file, pc, op, entries, entry, arg, before, status, clock, nextOrd,
                   clean>>
    /\ UNCHANGED sideVars

LoadNext == LoadCall

SpecLoad == LoadInit /\ [][LoadNext]_vars

----------------------------------------------------------------------------
(* group_entries_by_date *)

EmptyDict == [d \in {} |-> <<>>]

list_contains(xs, x) == \E i \in DOMAIN xs : xs[i] = x

GroupStepNoCheck(acc, e) ==
    LET date == Get(e, "date")
    IN [date_order |-> Append(acc.date_order, date),
        grouped |-> IF date \in DOMAIN acc.grouped
                    THEN [acc.grouped EXCEPT ![date] = Append(@, e)]
                    ELSE acc.grouped @@ (date :> <<e>>)]

\* one iteration of the for loop; grouped is a defaultdict(list)
GroupStep(acc, e) ==
    LET date == Get(e, "date")
    IN [date_order |-> IF ~list_contains(acc.date_order, date)
                       THEN Append(acc.date_order, date)
                       ELSE acc.date_order,
        grouped |-> IF date \in DOMAIN acc.grouped
                    THEN [acc.grouped EXCEPT ![date] = Append(@, e)]
                    ELSE acc.grouped @@ (date :> <<e>>)]

RECURSIVE GroupLoop(_, _)
GroupLoop(es, acc) ==
    IF es = <<>> THEN acc ELSE GroupLoop(Tail(es), GroupStep(acc, es[1]))

group_entries_by_date(es) ==
    GroupLoop(es, [date_order |-> <<>>, grouped |-> EmptyDict])

Times == {"09:15 AM", "03:20 PM"}

\* entries as the views hand them over; one kind has no 'date' key
GroupEntries == [date : Dates, time : Times] \cup [time : Times]

GroupInit ==
    /\ ginput \in SeqsUpTo(GroupEntries, MaxGroupLen)
    /\ goutput = NoGroup
    /\ text = <<>>
    /\ formatted = <<>>
    /\ spc = "ready"
    /\ StoreInit

GroupCall ==
    /\ spc = "ready"
    /\ goutput' = group_entries_by_date(ginput)
    /\ spc' = "done"
    /\ UNCHANGED <<ginput, text, formatted>>
    /\ UNCHANGED storeVars

GroupNext == GroupCall

SpecGroup == GroupInit /\ [][GroupNext]_vars

----------------------------------------------------------------------------
(* format_journal_text: a text is a sequence of characters, the result a    *)
(* sequence of characters and line-break markers                            *)

\* [.!?] and \s; one whitespace character stands for the class
Punct == {".", "!", "?"}
Space == {" "}
Chars == {"a"} \cup Space \cup Punct
BR == "<br>"

IsPunct(c) == c \in Punct
IsSpace(c) == c \in Space

\* first index >= i that holds no character of set S (Len + 1 when none)
RECURSIVE SkipWhile(_, _, _)
SkipWhile(t, i, S) ==
    IF i <= Len(t) /\ t[i] \in S THEN SkipWhile(t, i + 1, S) ELSE i

MatchAtAnyRun(t, i) ==
    IF ~IsPunct(t[i]) THEN 0
    ELSE SkipWhile(t, SkipWhile(t, i, Punct), Space)

\* [.!?]+(?:\s+|$) matched at index i: the index after the match, 0 when the
\* pattern does not match there.  The greedy run must reach a whitespace or
\* the end; backtracking to a shorter run leaves a punctuation mark next,
\* which is neither.
MatchAt(t, i) ==
    IF ~IsPunct(t[i]) THEN 0
    ELSE LET j == SkipWhile(t, i, Punct)
         IN IF j > Len(t) THEN j
            ELSE IF IsSpace(t[j]) THEN SkipWhile(t, j, Space)
            ELSE 0

\* re.split with the whole pattern captured: text, delimiter, text, ..., text
RECURSIVE re_split(_, _, _)
re_split(t, from, i) ==
    IF i > Len(t) THEN <<SubSeq(t, from, Len(t))>>
    ELSE LET j == MatchAt(t, i)
         IN IF j = 0 THEN re_split(t, from, i + 1)
            ELSE <<SubSeq(t, from, i - 1), SubSeq(t, i, j - 1)>> \o re_split(t, j, j)

\* str.strip()
strip(s) ==
    LET a == SkipWhile(s, 1, Space)
        LastNonSpace == {k \in 1..Len(s) : ~IsSpace(s[k])}
    IN IF LastNonSpace = {} THEN <<>>
       ELSE SubSeq(s, a, CHOOSE k \in LastNonSpace : \A m \in LastNonSpace : m <= k)

\* for i in range(0, len(sentences)-1, 2): ... (i is the 0-based index)
RECURSIVE SentenceLoop(_, _)
SentenceLoop(sentences, i) ==
    IF i >= Len(sentences) - 1 THEN <<>>
    ELSE LET sentence == strip(sentences[i + 1])
             punctuation == IF i + 1 < Len(sentences)
                            THEN strip(sentences[i + 2]) ELSE <<>>
         IN (IF sentence # <<>> THEN <<sentence \o punctuation>> ELSE <<>>)
            \o SentenceLoop(sentences, i + 2)

\* '<br>'.join(lines)
RECURSIVE join(_)
join(lines) ==
    IF lines = <<>> THEN <<>>
    ELSE IF Len(lines) = 1 THEN lines[1]
    ELSE lines[1] \o <<BR>> \o join(Tail(lines))

formatted_lines(t) ==
    LET sentences == re_split(t, 1, 1)
        last == sentences[Len(sentences)]
    IN SentenceLoop(sentences, 0)
       \o (IF Len(sentences) % 2 = 1 /\ strip(last) # <<>>
           THEN <<strip(last)>> ELSE <<>>)

format_journal_text(t) ==
    IF t = <<>> THEN <<>> ELSE join(formatted_lines(t))

FormatInit ==
    /\ text \in SeqsUpTo(Chars, MaxTextLen)
    /\ formatted = <<>>
    /\ ginput = <<>>
    /\ goutput = NoGroup
    /\ spc = "ready"
    /\ StoreInit

FormatCall ==
    /\ spc = "ready"
    /\ formatted' = format_journal_text(text)
    /\ spc' = "done"
    /\ UNCHANGED <<text, ginput, goutput>>
    /\ UNCHANGED storeVars

FormatNext == FormatCall

SpecFormat == FormatInit /\ [][FormatNext]_vars

----------------------------------------------------------------------------
(* Properties of the store (Spec) *)

Loaded == load_entries(file).val

Returned(o) == pc = "done" /\ op = o /\ status = "ok"

\* C1: while add_entry or delete_entry is persisting the collection, a reader
\* calling load_entries obtains the collection from before the call or the one
\* after it, never an empty or cut one.
C1_AtomicPersist ==
    [][(rpc = "idle" /\ rpc' = "loaded" /\ pc = "save_write" /\ op \in {"add", "delete"})
        => observed'.val \in {before, entries}]_vars

\* C2: when the write inside save_entries raises during add_entry, the next
\* load_entries returns exactly the entries stored before the insert.
C2_FailedInsertKeepsStore ==
    (pc = "done" /\ op = "add" /\ status = "failed") => Loaded = before

\* C3: no two entries of the persisted collection have the same id.
C3_UniqueIds ==
    \A i, j \in DOMAIN Loaded : i # j => Loaded[i].id # Loaded[j].id

\* C4: load_entries returns the entries most recently inserted first,
\* whatever their dates: the insertion ordinals strictly decrease, and after
\* nothing but returned inserts they are k, k-1, .., 1 for the k inserts made.
C4_ReverseInsertionOrder ==
    /\ \A i, j \in DOMAIN Loaded : i < j => Loaded[i].ord > Loaded[j].ord
    /\ (clean /\ pc \in {"done", "start", "idle"})
         => /\ Len(Loaded) = nextOrd - 1
            /\ \A i \in DOMAIN Loaded : Loaded[i].ord = nextOrd - i

C4_Witness ==
    /\ clean /\ Returned("add")
    /\ Len(Loaded) = 3
    /\ Loaded[1].date = "01-11-2025"
    /\ Loaded[2].date = "02-11-2025"
    /\ Loaded[3].date = "01-11-2025"

\* C5: after delete_entry(id) returns, load_entries holds no entry with that
\* id; when no entry had that id (a second call, or an unknown id) the
\* collection is what it was before the call.
C5_DeleteRemovesAndMissIsNoOp ==
    Returned("delete") =>
        /\ \A i \in DOMAIN Loaded : Loaded[i].id # arg
        /\ (\A i \in DOMAIN before : before[i].id # arg) => Loaded = before

C5_Witness ==
    /\ Returned("delete")
    /\ Len(before) = 2
    /\ \A i \in DOMAIN before : before[i].id # arg
    /\ Loaded = before

\* C6: a returned insert changes the collection only by putting the new entry
\* at the head, a returned delete only by removing the entries whose id
\* matches; every other entry stays, field for field, in the same order.
C6_InsertAndDeleteFrame ==
    /\ Returned("add") => Loaded = <<entry>> \o before
    /\ Returned("delete") =>
         LET Keep(e) == e.id # arg IN Loaded = SelectSeq(before, Keep)

C6_Witness ==
    /\ Returned("delete")
    /\ Len(before) = 3
    /\ before[2].id = arg
    /\ Loaded = <<before[1], before[3]>>

----------------------------------------------------------------------------
(* Properties of load_entries (SpecLoad) *)

\* C7: load_entries never raises; on a missing, empty or cut file it returns
\* the empty list, on a completely written file the entries in stored order.
C7_LoadNeverFails ==
    rpc = "loaded" =>
        /\ ~observed.raised
        /\ observed.val = IF file.exists /\ file.data = json_dump(entries)
                          THEN entries ELSE <<>>

C7_Witness ==
    /\ rpc = "loaded"
    /\ file.exists
    /\ Len(entries) = 2
    /\ Len(file.data) = 3
    /\ observed = [raised |-> FALSE, val |-> <<>>]

----------------------------------------------------------------------------
(* Properties of group_entries_by_date (SpecGroup) *)

DateOf(e) == IF "date" \in DOMAIN e THEN e.date ELSE None

FirstIndex(es, d) ==
    CHOOSE i \in DOMAIN es :
        DateOf(es[i]) = d /\ \A k \in 1..(i - 1) : DateOf(es[k]) # d

\* C9: date_order lists each distinct date once, in order of first appearance
\* in the input; grouped[d] is the input entries dated d, in input order.
C9_GroupPartition ==
    spc = "done" =>
        LET o == goutput.date_order
            g == goutput.grouped
            D == {DateOf(ginput[i]) : i \in DOMAIN ginput}
        IN /\ {o[i] : i \in DOMAIN o} = D
           /\ Len(o) = Cardinality(D)
           /\ \A i, j \in DOMAIN o :
                i < j => FirstIndex(ginput, o[i]) < FirstIndex(ginput, o[j])
           /\ DOMAIN g = D
           /\ \A d \in D :
                LET Dated(e) == DateOf(e) = d IN g[d] = SelectSeq(ginput, Dated)

C9_Witness ==
    /\ spc = "done"
    /\ Len(ginput) = 3
    /\ DateOf(ginput[1]) = "02-11-2025"
    /\ DateOf(ginput[2]) = "01-11-2025"
    /\ DateOf(ginput[3]) = "02-11-2025"
    /\ ginput[1] # ginput[3]
    /\ goutput.date_order = <<"02-11-2025", "01-11-2025">>
    /\ goutput.grouped["02-11-2025"] = <<ginput[1], ginput[3]>>

----------------------------------------------------------------------------
(* Properties of format_journal_text (SpecFormat) *)

\* s without its leading and trailing whitespace
Trimmed(s) ==
    LET Solid == {k \in DOMAIN s : s[k] \notin Space}
    IN IF Solid = {} THEN <<>>
       ELSE LET lo == CHOOSE k \in Solid : \A m \in Solid : k <= m
                hi == CHOOSE k \in Solid : \A m \in Solid : m <= k
            IN [n \in 1..(hi - lo + 1) |-> s[lo + n - 1]]

\* last position of every maximal run of punctuation marks
RunEnds(t) ==
    {i \in DOMAIN t : t[i] \in Punct /\ (i = Len(t) \/ t[i + 1] \notin Punct)}

\* last position of every run that a whitespace or the end of the text follows
DelimiterEnds(t) ==
    {i \in DOMAIN t : t[i] \in Punct /\ (i = Len(t) \/ t[i + 1] \in Space)}

RunStart(t, i) ==
    CHOOSE k \in 1..i :
        /\ \A m \in k..i : t[m] \in Punct
        /\ k = 1 \/ t[k - 1] \notin Punct

PrevEnd(Ends, i) ==
    IF \E k \in Ends : k < i
    THEN CHOOSE k \in Ends : k < i /\ \A m \in Ends : m < i => m <= k
    ELSE 0

\* the lines a text has when it is cut after the runs ending at Ends: each
\* sentence trimmed, followed by its run; the rest of the text, trimmed, last
RECURSIVE LinesCutAt(_, _, _, _)
LinesCutAt(t, Ends, keepBare, i) ==
    IF i > Len(t)
    THEN LET rest == Trimmed(SubSeq(t, PrevEnd(Ends, Len(t) + 1) + 1, Len(t)))
         IN IF rest = <<>> THEN <<>> ELSE <<rest>>
    ELSE IF i \notin Ends THEN LinesCutAt(t, Ends, keepBare, i + 1)
    ELSE LET a == RunStart(t, i)
             sentence == Trimmed(SubSeq(t, PrevEnd(Ends, i) + 1, a - 1))
         IN (IF sentence # <<>> \/ keepBare
             THEN <<sentence \o SubSeq(t, a, i)>> ELSE <<>>)
            \o LinesCutAt(t, Ends, keepBare, i + 1)

RECURSIVE Joined(_)
Joined(lines) ==
    IF lines = <<>> THEN <<>>
    ELSE IF Len(lines) = 1 THEN lines[1]
    ELSE lines[1] \o <<BR>> \o Joined(Tail(lines))

\* C10 as stated: the text is cut after every run of punctuation marks, and
\* every run appears in the output with the sentence it ends.
C10_SplitsAtEveryRun ==
    spc = "done" => formatted = Joined(LinesCutAt(text, RunEnds(text), TRUE, 1))

\* C10 amended: the text is cut only after a run that a whitespace or the end
\* of the text follows (any other run stays inside its sentence), the run is
\* kept with the trimmed sentence it ends, a run whose sentence is empty is
\* dropped, and the trimmed rest of the text is the last line.
C10_SplitsAtRunsBeforeSpace ==
    spc = "done" =>
        formatted = Joined(LinesCutAt(text, DelimiterEnds(text), FALSE, 1))

C10_Witness ==
    /\ spc = "done"
    /\ text = <<".", "a", "?", " ", "a">>
    /\ formatted = <<".", "a", "?", BR, "a">>

====
